---- MODULE Spec2Model ----
(***************************************************************************)
(* A model of the lexer of src/src/lexer.rs: lex (the driver loop) and     *)
(* consume_token (the recursive scan step).                                *)
(*                                                                         *)
(* Bytes are one-character strings and the source buffer is a sequence of  *)
(* them.  Addresses are held relative to the start of the buffer, so the   *)
(* address of the remaining input is the offset of its first byte.         *)
(* usize values are held in their two's-complement signed reading: a       *)
(* stored n < 0 stands for the wrapped usize 2^64 + n.  Whether a          *)
(* subtraction that underflows panics or wraps is decided by the build     *)
(* profile; overflow_checks holds that choice and both are modelled.       *)
(*                                                                         *)
(* Every state of the model stands at the head of a loop that calls        *)
(* consume_token: the loop of lex when the stack is empty, else the loop   *)
(* of the suspended consume_token activation on top of the stack.          *)
(***************************************************************************)
EXTENDS Integers, Sequences, FiniteSets, TLC

VARIABLES
    code,             \* Tokens.code, the source buffer
    overflow_checks,  \* the build checks integer overflow (debug profile)
    input,            \* offset of the remaining input
    line,             \* *line
    line_start,       \* *line_start
    line_breaks,      \* Tokens.line_breaks
    spans,            \* Tokens.spans
    types,            \* Tokens.types
    stack,            \* suspended consume_token activations, innermost last
    status,           \* "running", "done" (lex returned), "panic" or "abort"
    panic,            \* the panic that ended the run, NoPanic before
    event             \* what the last step did

vars == <<code, overflow_checks, input, line, line_start, line_breaks, spans,
          types, stack, status, panic, event>>

-----------------------------------------------------------------------------
(* Byte classes *)

Lower == {"a","b","c","d","e","f","g","h","i","j","k","l","m",
          "n","o","p","q","r","s","t","u","v","w","x","y","z"}

Upper == {"A","B","C","D","E","F","G","H","I","J","K","L","M",
          "N","O","P","Q","R","S","T","U","V","W","X","Y","Z"}

Digit == {"0","1","2","3","4","5","6","7","8","9"}

\* u8::is_ascii_whitespace
AsciiWhitespace == {" ", "\t", "\n", "\f", "\r"}

IdentStart == {"_"} \cup Upper \cup Lower

IdentCont == {"_"} \cup Upper \cup Lower \cup Digit

HexDigits == {"_"} \cup Digit \cup {"a","b","c","d","e","f"}
                 \cup {"A","B","C","D","E","F"}

OctDigits == {"_", "0","1","2","3","4","5","6","7"}

BinDigits == {"_", "0", "1"}

DecDigits == {"_"} \cup Digit

-----------------------------------------------------------------------------
(* Longest-match tables *)

None == "None"

Op2Table ==
    { [text |-> <<"=","=">>, type |-> "Equals"],
      [text |-> <<"!","=">>, type |-> "NotEquals"],
      [text |-> <<"<","=">>, type |-> "LessEqual"],
      [text |-> <<">","=">>, type |-> "GreaterEqual"],
      [text |-> <<">","-">>, type |-> "Feather"],
      [text |-> <<"-",">">>, type |-> "Arrow"],
      [text |-> <<"<","<">>, type |-> "LShift"],
      [text |-> <<">",">">>, type |-> "RShift"],
      [text |-> <<"+","+">>, type |-> "Incr"],
      [text |-> <<"-","-">>, type |-> "Decr"],
      [text |-> <<"*","*">>, type |-> "Pow"] }

Op1Table ==
    { [text |-> <<"%">>, type |-> "Modulo"],
      [text |-> <<"<">>, type |-> "LessThan"],
      [text |-> <<">">>, type |-> "GreaterThan"],
      [text |-> <<"&">>, type |-> "Ampersand"],
      [text |-> <<"|">>, type |-> "Pipe"],
      [text |-> <<"^">>, type |-> "Caret"],
      [text |-> <<"~">>, type |-> "Tilde"],
      [text |-> <<"+">>, type |-> "Plus"],
      [text |-> <<"-">>, type |-> "Minus"],
      [text |-> <<"*">>, type |-> "Mul"],
      [text |-> <<"/">>, type |-> "Div"],
      [text |-> <<"=">>, type |-> "Equal"],
      [text |-> <<";">>, type |-> "Semi"],
      [text |-> <<":">>, type |-> "Colon"],
      [text |-> <<",">>, type |-> "Comma"],
      [text |-> <<".">>, type |-> "Dot"],
      [text |-> <<"(">>, type |-> "LParens"],
      [text |-> <<")">>, type |-> "RParens"],
      [text |-> <<"[">>, type |-> "LBracket"],
      [text |-> <<"]">>, type |-> "RBracket"],
      [text |-> <<"{">>, type |-> "LBrace"],
      [text |-> <<"}">>, type |-> "RBrace"] }

KwTable ==
    { [text |-> <<"c","o","n","t","i","n","u","e">>, type |-> "Continue"],
      [text |-> <<"p","a","c","k","e","d">>, type |-> "Packed"],
      [text |-> <<"s","t","r","u","c","t">>, type |-> "Struct"],
      [text |-> <<"u","n","i","o","n">>, type |-> "Union"],
      [text |-> <<"d","e","f","e","r">>, type |-> "Defer"],
      [text |-> <<"w","h","i","l","e">>, type |-> "While"],
      [text |-> <<"b","r","e","a","k">>, type |-> "Break"],
      [text |-> <<"e","n","u","m">>, type |-> "Enum"],
      [text |-> <<"t","h","e","n">>, type |-> "Then"],
      [text |-> <<"e","l","s","e">>, type |-> "Else"],
      [text |-> <<"l","o","o","p">>, type |-> "Loop"],
      [text |-> <<"a","n","d">>, type |-> "And"],
      [text |-> <<"x","o","r">>, type |-> "Xor"],
      [text |-> <<"n","o","t">>, type |-> "Not"],
      [text |-> <<"p","u","b">>, type |-> "Pub"],
      [text |-> <<"o","r">>, type |-> "Or"],
      [text |-> <<"f","n">>, type |-> "Fn"],
      [text |-> <<"i","f">>, type |-> "If"],
      [text |-> <<"d","o">>, type |-> "Do"] }

\* The match of the first n bytes of text against a table: the type of the
\* entry whose text is that prefix, None when text is shorter or no entry is.
Lookup(table, text, n) ==
    IF Len(text) >= n /\ \E e \in table : e.text = SubSeq(text, 1, n)
    THEN (CHOOSE e \in table : e.text = SubSeq(text, 1, n)).type
    ELSE None

\* The lengths the keyword block tries, in its order.
KwLengths == <<8, 6, 5, 4, 3, 2>>

RECURSIVE KwFrom(_, _)
KwFrom(ident_slice, k) ==
    IF k > Len(KwLengths) THEN None
    ELSE LET t == Lookup(KwTable, ident_slice, KwLengths[k])
         IN  IF t # None THEN t ELSE KwFrom(ident_slice, k + 1)

\* The type the 'kw block adds for ident_slice, None when is_keyword is false.
KeywordType(ident_slice) == KwFrom(ident_slice, 1)

\* OperatorMatch with the 1-byte table consulted before the 2-byte table.
OperatorMatchShortFirst(rest) ==
    IF Lookup(Op1Table, rest, 1) # None THEN <<Lookup(Op1Table, rest, 1), 1>>
    ELSE IF Lookup(Op2Table, rest, 2) # None THEN <<Lookup(Op2Table, rest, 2), 2>>
    ELSE <<None, 0>>

\* The operator block on the bytes rest: <<type, op_len>>, None when
\* is_operator is false.
OperatorMatch(rest) ==
    IF Lookup(Op2Table, rest, 2) # None THEN <<Lookup(Op2Table, rest, 2), 2>>
    ELSE IF Lookup(Op1Table, rest, 1) # None THEN <<Lookup(Op1Table, rest, 1), 1>>
    ELSE <<None, 0>>

-----------------------------------------------------------------------------
(* The buffer *)

N == Len(code)

At(i) == code[i + 1]

Slice(start, end) == SubSeq(code, start + 1, end)

StartsWith(i, pat) == i + Len(pat) <= N /\ Slice(i, i + Len(pat)) = pat

\* The offset where a loop of the form `while matches!(input[0], set)` started
\* at i stops: the first byte outside set, or N when the loop runs off the end
\* of the buffer (where input[0] panics).
RECURSIVE Run(_, _)
Run(i, set) == IF i < N /\ At(i) \in set THEN Run(i + 1, set) ELSE i


\* The loop `while input[0] != b` started at i: the first offset holding a
\* byte of set, or N when the loop runs off the end of the buffer.
RECURSIVE RunNot(_, _)
RunNot(i, set) == IF i < N /\ At(i) \notin set THEN RunNot(i + 1, set) ELSE i

-----------------------------------------------------------------------------
(* The state a scan step works on, as one record *)

NoPanic == [msg |-> "none", positioned |-> FALSE, line |-> 0, col |-> 0]

Cur == [input |-> input, line |-> line, line_start |-> line_start,
        line_breaks |-> line_breaks, spans |-> spans, types |-> types,
        stack |-> stack, status |-> status, panic |-> panic, event |-> event]

\* Panics of the runtime, which carry no source position.
IndexOutOfBounds == "index out of bounds"

SubtractOverflow == "attempt to subtract with overflow"

Abort(s, msg) ==
    [s EXCEPT !.status = "panic", !.event = "panic",
              !.panic = [msg |-> msg, positioned |-> FALSE, line |-> 0, col |-> 0]]

\* panic!("{file_name}:{line}:{col}: msg") after
\* `let col = start_str_addr + 1 - *line_start`.
LexError(s, msg, start_str_addr) ==
    IF start_str_addr + 1 < s.line_start /\ overflow_checks
    THEN Abort(s, SubtractOverflow)
    ELSE [s EXCEPT !.status = "panic", !.event = "panic",
                   !.panic = [msg |-> msg, positioned |-> TRUE, line |-> s.line,
                              col |-> start_str_addr + 1 - s.line_start]]

\* NewLine without `*line += 1`.
NewLineNoCount(s) ==
    [s EXCEPT !.line_breaks = Append(@, s.input),
              !.input = s.input + 1,
              !.line_start = s.input + 1]

\* NewLine taking the address after `input = &input[1..]`.
NewLineLateAddr(s) ==
    [s EXCEPT !.line_breaks = Append(@, s.input + 1),
              !.input = s.input + 1,
              !.line_start = s.input + 1,
              !.line = s.line + 1]

\* The four statements every recording site runs on a `\n` at the cursor.
NewLine(s) ==
    [s EXCEPT !.line_breaks = Append(@, s.input),
              !.input = s.input + 1,
              !.line_start = s.input + 1,
              !.line = s.line + 1]

AddType(s, toktype) == [s EXCEPT !.types = Append(@, toktype)]

\* `let col = bcode.as_ptr() as usize + start - *line_start` and
\* `tokens.spans.add(TokenSpan::new(slice, *line, col))`.
AddSpan(s, start, end) ==
    IF start < s.line_start /\ overflow_checks
    THEN Abort(s, SubtractOverflow)
    ELSE [s EXCEPT !.spans = Append(@, [slice |-> Slice(start, end), off |-> start,
                                        line |-> s.line, col |-> start - s.line_start])]

\* consume_token returns to the loop that called it.
Return(s) == IF s.status = "panic" THEN s ELSE [s EXCEPT !.event = "return"]

\* consume_token reaches a loop that calls consume_token: the activation waits
\* on the stack for the calls of that loop.
Suspend(s, kind, start_str_addr) ==
    IF s.status = "panic" THEN s
    ELSE [s EXCEPT !.event = "suspend",
                   !.stack = Append(@, [kind |-> kind, start_str_addr |-> start_str_addr])]

\* The call stack is exhausted: the runtime kills the process (SIGABRT, "thread
\* ... has overflowed its stack"); no panic of the lexer, nothing is returned.
StackOverflow(s) == [s EXCEPT !.status = "abort", !.event = "stack overflow"]

-----------------------------------------------------------------------------
(* consume_token *)

RECURSIVE SaveLineBreaks(_)
SaveLineBreaks(s) ==
    IF s.input < N /\ At(s.input) = "\n" THEN SaveLineBreaks(NewLine(s)) ELSE s

IgnoreWhitespace(s) ==
    [s EXCEPT !.input = Run(s.input, AsciiWhitespace)]

IgnoreComment(s) ==
    LET end == RunNot(s.input + 2, {"\n"})
    IN  IF end >= N THEN Abort(s, IndexOutOfBounds)
        ELSE Return([s EXCEPT !.input = end])

\* Operator with op_len left at 2 when the 1-byte table matches.
OperatorStaleLen(s) ==
    LET m == OperatorMatch(Slice(s.input, IF s.input + 2 <= N THEN s.input + 2 ELSE N))
    IN  IF s.input + 2 > N THEN Abort(AddType(s, m[1]), IndexOutOfBounds)
        ELSE Return([AddSpan(AddType(s, m[1]), s.input, s.input + 2)
                        EXCEPT !.input = s.input + 2])

\* Operator without `input = &input[op_len..]`.
OperatorNoAdvance(s) ==
    LET m == OperatorMatch(Slice(s.input, IF s.input + 2 <= N THEN s.input + 2 ELSE N))
    IN  Return(AddSpan(AddType(s, m[1]), s.input, s.input + m[2]))

Operator(s) ==
    LET m == OperatorMatch(Slice(s.input, IF s.input + 2 <= N THEN s.input + 2 ELSE N))
        s1 == AddSpan(AddType(s, m[1]), s.input, s.input + m[2])
    IN  Return([s1 EXCEPT !.input = s.input + m[2]])

\* The scanning loop of an interpolated string, from the cursor of s, up to
\* the end of the literal, the next interpolation or the end of the input.
RECURSIVE InterpolatedScan(_, _, _)
InterpolatedScan(s, start_str_addr, has_interpolation) ==
    IF s.input >= N
    THEN LexError(s, "Unfinished interpolated string", start_str_addr)
    ELSE IF StartsWith(s.input, <<"\\", "\"">>) \/ StartsWith(s.input, <<"\\", "{">>)
    THEN InterpolatedScan([s EXCEPT !.input = s.input + 2],
                          start_str_addr, has_interpolation)
    ELSE IF At(s.input) = "\""
    THEN LET s1 == AddType([s EXCEPT !.input = s.input + 1],
                           IF has_interpolation THEN "StringInterpEnd" ELSE "String")
         IN  Return(AddSpan(s1, start_str_addr, s.input + 1))
    ELSE IF At(s.input) = "{"
    THEN LET s1 == AddType([s EXCEPT !.input = s.input + 1],
                           IF has_interpolation THEN "StringInterpMid"
                                                ELSE "StringInterpBeg")
         IN  Suspend(AddSpan(s1, start_str_addr, s.input + 1), "interp", start_str_addr)
    ELSE IF At(s.input) = "\n"
    THEN InterpolatedScan(NewLine(s), start_str_addr, has_interpolation)
    ELSE InterpolatedScan([s EXCEPT !.input = s.input + 1],
                          start_str_addr, has_interpolation)

\* InterpolatedString with the first segment started after the marker.
InterpolatedStringLateStart(s) ==
    InterpolatedScan([s EXCEPT !.input = s.input + 2], s.input + 2, FALSE)

InterpolatedString(s) ==
    InterpolatedScan([s EXCEPT !.input = s.input + 2], s.input, FALSE)

\* The scanning loop of a plain string or a char: <<state, is_valid>>.
RECURSIVE QuotedScan(_, _)
QuotedScan(s, quote) ==
    IF s.input >= N THEN <<s, FALSE>>
    ELSE IF StartsWith(s.input, <<"\\", quote>>)
    THEN QuotedScan([s EXCEPT !.input = s.input + 2], quote)
    ELSE IF At(s.input) = quote THEN <<[s EXCEPT !.input = s.input + 1], TRUE>>
    ELSE IF At(s.input) = "\n" THEN QuotedScan(NewLine(s), quote)
    ELSE QuotedScan([s EXCEPT !.input = s.input + 1], quote)

Quoted(s, prefix_len, quote, toktype, msg) ==
    LET r == QuotedScan([s EXCEPT !.input = s.input + prefix_len], quote)
    IN  IF r[2]
        THEN Return(AddSpan(AddType(r[1], toktype), s.input, r[1].input))
        ELSE LexError(r[1], msg, s.input)

\* prefix.len() of the string block, 0 when is_string is false.
StringPrefixLen(i) ==
    IF StartsWith(i, <<"b", "\"">>) THEN 2
    ELSE IF StartsWith(i, <<"c", "\"">>) THEN 2
    ELSE IF At(i) = "\"" THEN 1
    ELSE 0

\* prefix.len() of the char block, 0 when is_char is false.
CharPrefixLen(i) ==
    IF StartsWith(i, <<"b", "'">>) THEN 2
    ELSE IF At(i) = "'" THEN 1
    ELSE 0

\* Identifier with the Ident kind appended after a keyword kind as well.
IdentifierBothKinds(s) ==
    LET end == Run(s.input + 1, IdentCont)
        ident_slice == Slice(s.input, end)
        kw == KeywordType(ident_slice)
        s1 == [s EXCEPT !.input = end]
        s2 == IF kw # None THEN AddType(s1, kw) ELSE s1
    IN  IF end >= N THEN Abort(s, IndexOutOfBounds)
        ELSE IF s.input < s.line_start /\ overflow_checks
        THEN Abort(s1, SubtractOverflow)
        ELSE Return(AddSpan(AddType(s2, "Ident"), s.input, end))

Identifier(s) ==
    LET end == Run(s.input + 1, IdentCont)
        ident_slice == Slice(s.input, end)
        kw == KeywordType(ident_slice)
        s1 == [s EXCEPT !.input = end]
    IN  IF end >= N THEN Abort(s, IndexOutOfBounds)
        ELSE IF s.input < s.line_start /\ overflow_checks
        THEN Abort(s1, SubtractOverflow)
        ELSE Return(AddSpan(AddType(s1, IF kw # None THEN kw ELSE "Ident"),
                            s.input, end))

\* The offset where the scan of a numeric literal at i stops, N when one of
\* its loops or tests reads input[0] past the end of the buffer.
NumberEnd(i) ==
    IF StartsWith(i, <<"0", "x">>) THEN Run(i + 2, HexDigits)
    ELSE IF StartsWith(i, <<"0", "o">>) THEN Run(i + 2, OctDigits)
    ELSE IF StartsWith(i, <<"0", "b">>) THEN Run(i + 2, BinDigits)
    ELSE LET whole == Run(i + 1, DecDigits)
             frac == IF whole < N /\ At(whole) = "." THEN Run(whole + 1, DecDigits)
                     ELSE whole
             sign == IF frac < N /\ At(frac) \in {"e", "E"} THEN frac + 1 ELSE frac
             digits == IF sign > frac /\ sign < N /\ At(sign) \in {"+", "-"}
                       THEN sign + 1 ELSE sign
         IN  IF sign > frac /\ digits < N THEN Run(digits, DecDigits) ELSE digits

Number(s) ==
    LET end == NumberEnd(s.input)
    IN  IF end >= N THEN Abort(s, IndexOutOfBounds)
        ELSE Return(AddSpan(AddType([s EXCEPT !.input = end], "Num"), s.input, end))

\* The closing byte the loop of a suspended activation waits for.
Closer(kind) ==
    CASE kind = "interp" -> "}"
      [] kind = "parens" -> ")"
      [] kind = "bracket" -> "]"
      [] kind = "brace" -> "}"

\* The blocks of consume_token after the whitespace, in the order of the code.
Dispatch(s) ==
    LET i == s.input
    IN  IF StartsWith(i, <<"/", "/">>) THEN IgnoreComment(s)
        ELSE IF OperatorMatch(Slice(i, IF i + 2 <= N THEN i + 2 ELSE N))[1] # None
        THEN Operator(s)
        ELSE IF StartsWith(i, <<"$", "\"">>) THEN InterpolatedString(s)
        ELSE IF StringPrefixLen(i) > 0
        THEN Quoted(s, StringPrefixLen(i), "\"", "String", "Unfinished string")
        ELSE IF CharPrefixLen(i) > 0
        THEN Quoted(s, CharPrefixLen(i), "'", "Char", "Unfinished char")
        ELSE IF At(i) \in IdentStart THEN Identifier(s)
        ELSE IF At(i) \in Digit THEN Number(s)
        ELSE IF At(i) = "(" THEN Suspend(s, "parens", i)
        ELSE IF At(i) = "[" THEN Suspend(s, "bracket", i)
        ELSE IF At(i) = "{" THEN Suspend(s, "brace", i)
        ELSE LexError(s, "Cannot parse token", i)

ConsumeToken(s) ==
    LET s1 == IgnoreWhitespace(SaveLineBreaks(s))
    IN  IF s1.input >= N THEN Return(s1) ELSE Dispatch(s1)

\* Resume without `start_str_addr = input.as_ptr() as usize`: the next segment
\* keeps the boundary of the one before.
ResumeStaleStart(s, frame) ==
    IF s.input >= N
    THEN LexError(s, "Unfinished interpolated string", frame.start_str_addr)
    ELSE InterpolatedScan([s EXCEPT !.input = s.input + 1], frame.start_str_addr, TRUE)

\* Resume with the line counter and the line start the activation had when
\* its segment began, as if they had been passed to the recursion by value.
ResumeStaleLine(s, frame) ==
    LET before == {k \in 1..Len(s.line_breaks) :
                      s.line_breaks[k] < frame.start_str_addr}
        s1 == [s EXCEPT !.line = 1 + Cardinality(before),
                        !.line_start = IF before = {} THEN 0
                                       ELSE s.line_breaks[Cardinality(before)] + 1]
    IN  IF s.input >= N
        THEN LexError(s1, "Unfinished interpolated string", frame.start_str_addr)
        ELSE InterpolatedScan([s1 EXCEPT !.input = s.input + 1], s.input, TRUE)

\* The rest of a suspended activation once its loop has ended; s has the
\* activation's frame already removed from the stack.
Resume(s, frame) ==
    IF frame.kind = "interp"
    THEN IF s.input >= N
         THEN LexError(s, "Unfinished interpolated string", frame.start_str_addr)
         ELSE InterpolatedScan([s EXCEPT !.input = s.input + 1], s.input, TRUE)
    ELSE IF s.input >= N
    THEN LexError(s, CASE frame.kind = "parens" -> "Unclosed parenthesis"
                       [] frame.kind = "bracket" -> "Unclosed bracket"
                       [] frame.kind = "brace" -> "Unclosed brace",
                  frame.start_str_addr)
    ELSE LexError(s, "Cannot parse token", s.input)

-----------------------------------------------------------------------------
(* Inputs *)

\* The inputs the specification's scenarios name.
InInterp == <<"$", "\"", "a", "{", "1", "+", "2", "}", "b", "\"">>

InNested == <<"(", "1", " ", "+", " ", "[", "2", " ", "*", " ", "3", "]", ")">>

InOpenParen == <<"(">>

InOpenSum == <<"(", "1", " ", "+", " ", "2">>

InMismatch == <<"[", "1", ")">>

InUnfinished == <<"\"", "a", "b", "c">>

InIf == <<"i", "f", " ">>

InIfx == <<"i", "f", "x", " ">>

InContinued == <<"c", "o", "n", "t", "i", "n", "u", "e", "d", " ">>

InStructx == <<"s", "t", "r", "u", "c", "t", "x", " ">>

InOrder == <<"o", "r", "d", "e", "r", " ">>

InFloat == <<"1", ".", "5", "e", "-", "3", ";">>

\* An interpolation whose interior ends with a blank before the closing brace.
InInterpBlank == <<"$", "\"", "a", "{", "1", " ", "}", "b", "\"">>

\* Two lines of code with a line comment at the end of the first.
InCommented == <<"1", " ", "/", "/", "a", "\n", "+", "2", ";">>

\* Two interpolations in one literal, the first with a blank before its
\* closing brace.
InInterpBlankTwo == <<"$", "\"", "{", " ", "}", "{", "}", "\"">>

NamedInputs ==
    {InInterp, InNested, InOpenParen, InOpenSum, InMismatch,
     InUnfinished, InIf, InIfx, InContinued, InStructx,
     InOrder, InFloat, InInterpBlank, InCommented,
     InInterpBlankTwo}

\* All byte strings over alphabet of at most n bytes.
Strings(alphabet, n) == UNION {[1..k -> alphabet] : k \in 0..n}

\* Every prefix followed by every byte string over alphabet of at most n bytes.
Prefixed(prefixes, alphabet, n) ==
    {p \o s : p \in prefixes, s \in Strings(alphabet, n)}

MaxLen == 4

Alphabet == {"\n", " ", "\"", "a", "1", "(", "/", "-", "@"}

Inputs == NamedInputs \cup Strings(Alphabet, MaxLen)

MaxOpLen == 2

OpAlphabet == {e.text[1] : e \in Op1Table} \cup {"!", "@", "#", "$", " ", "\n"}

OpInputs == NamedInputs \cup Strings(OpAlphabet, MaxOpLen)

MaxNestLen == 4

NestAlphabet == {"(", ")", "[", "]", "{", "}", "1", " "}

NestInputs == NamedInputs \cup Strings(NestAlphabet, MaxNestLen)

MaxLineLen == 3

LineAlphabet == {"\n", "\"", "'", "$", "{", "}", "b", "c", " ", "\\"}

LinePrefixes == {<<>>, <<"\"">>, <<"'">>, <<"$", "\"">>, <<"$", "\"", "{">>}

\* A line break at each of the four recording sites: in a plain string, in a
\* char, in an interpolated string and before a token.
InFourSites ==
    <<"\"", "\n", "\"", "'", "\n", "'", "$", "\"", "\n", "\"", "\n", ";">>

LineInputs ==
    NamedInputs \cup {InFourSites} \cup Prefixed(LinePrefixes, LineAlphabet, MaxLineLen)

MaxInterpLen == 4

InterpAlphabet == {"{", "}", "\"", "\\", "a", "1", " "}

InterpPrefixes == {<<"$", "\"">>, <<"$", "\"", "{", "1", "}">>}

\* Sources that open with an interpolated string and hold no other one.
InterpInputs ==
    NamedInputs \cup Prefixed(InterpPrefixes, InterpAlphabet, MaxInterpLen)

-----------------------------------------------------------------------------
(* lex *)

\* The state lex sets up before its loop, for a source drawn from inputs.
Start(inputs) ==
    /\ code \in inputs
    /\ overflow_checks \in BOOLEAN
    /\ input = 0
    /\ line = 1
    /\ line_start = 0
    /\ line_breaks = <<>>
    /\ spans = <<>>
    /\ types = <<>>
    /\ stack = <<>>
    /\ status = "running"
    /\ panic = NoPanic
    /\ event = "start"

Set(s) ==
    /\ input' = s.input
    /\ line' = s.line
    /\ line_start' = s.line_start
    /\ line_breaks' = s.line_breaks
    /\ spans' = s.spans
    /\ types' = s.types
    /\ stack' = s.stack
    /\ status' = s.status
    /\ panic' = s.panic
    /\ event' = s.event
    /\ UNCHANGED <<code, overflow_checks>>

\* `while !input.is_empty()` of lex holds: one call of consume_token.
LexCall ==
    /\ status = "running"
    /\ stack = <<>>
    /\ input < N
    /\ Set(ConsumeToken(Cur))

\* The loop of lex ends and lex returns tokens.
LexReturn ==
    /\ status = "running"
    /\ stack = <<>>
    /\ input >= N
    /\ Set([Cur EXCEPT !.status = "done", !.event = "done"])

Top == stack[Len(stack)]

\* `!input.is_empty() && input[0] != closer`, the condition of the loop of the
\* innermost suspended activation.
LoopHolds == IF input < N THEN At(input) # Closer(Top.kind) ELSE FALSE

\* The outcomes of a call of consume_token made by an activation of
\* consume_token: the call runs, or the thread's call stack does not hold one
\* more activation. Which of the two depends on the frame sizes of the build
\* (optimisation level, debug information) and on the stack limit of the
\* thread, which the lexer neither sets nor tests, so at every depth either
\* is possible.
RecursiveCall(s) == {ConsumeToken(s), StackOverflow(s)}

\* That condition holds: one recursive call of consume_token.
LoopCall ==
    /\ status = "running"
    /\ stack # <<>>
    /\ LoopHolds
    /\ \E s \in RecursiveCall(Cur) : Set(s)

\* That condition fails: the loop ends and the suspended activation runs on.
LoopExit ==
    /\ status = "running"
    /\ stack # <<>>
    /\ ~LoopHolds
    /\ Set(Resume([Cur EXCEPT !.stack = SubSeq(stack, 1, Len(stack) - 1)], Top))

Next == LexCall \/ LexReturn \/ LoopCall \/ LoopExit

Spec == Start(Inputs) /\ [][Next]_vars


\* Operators and punctuation only.
SpecOps == Start(OpInputs) /\ [][Next]_vars

\* Delimiters, numbers and blanks only.
SpecNest == Start(NestInputs) /\ [][Next]_vars

\* Literals that may span lines.
SpecInterp == Start(InterpInputs) /\ [][Next]_vars

SpecLines == Start(LineInputs) /\ [][Next]_vars

-----------------------------------------------------------------------------
(* What the claims speak of *)

\* The emitted tokens, each kind with its span.
Tokens ==
    [i \in 1..Len(spans) |->
        [type |-> types[i], slice |-> spans[i].slice,
         line |-> spans[i].line, col |-> spans[i].col]]

Slices == [i \in 1..Len(spans) |-> spans[i].slice]

\* A scan step is about to be called, by lex or by a suspended activation.
ScanCall ==
    /\ status = "running"
    /\ IF stack = <<>> THEN input < N ELSE LoopHolds

\* The call of the step does not exhaust the call stack: the step runs.
StepRuns == status' # "abort"

\* The first byte after the whitespace at the cursor.
AfterBlanks == Run(input, AsciiWhitespace)

LexicalErrors ==
    {"Unfinished interpolated string", "Unfinished string", "Unfinished char",
     "Unclosed parenthesis", "Unclosed bracket", "Unclosed brace",
     "Cannot parse token"}

-----------------------------------------------------------------------------
(* C1 *)

\* C1: lex returns a Token Stream or aborts with one of the five positioned
\* lexical errors; no other abort is reachable.
C1_OnlyLexicalAborts ==
    /\ status = "panic" => panic.positioned /\ panic.msg \in LexicalErrors
    /\ status # "abort"

-----------------------------------------------------------------------------
(* C2 *)

\* C2: a token has a keyword kind only when its whole text is that keyword; an
\* identifier that only begins with a keyword is an Ident.
C2_KeywordIsWholeText ==
    \A i \in DOMAIN spans :
        types[i] \in {e.type : e \in KwTable}
            => [text |-> spans[i].slice, type |-> types[i]] \in KwTable

-----------------------------------------------------------------------------
(* C3 *)

\* The last token is the one table gives for the len bytes at offset p, and
\* the cursor stands right after them.
EmitsOperator(table, p, len) ==
    /\ status' = "running"
    /\ input' = p + len
    /\ types' = Append(types, (CHOOSE e \in table : e.text = Slice(p, p + len)).type)
    /\ Len(spans') = Len(spans) + 1
    /\ SubSeq(spans', 1, Len(spans)) = spans
    /\ spans'[Len(spans')].slice = Slice(p, p + len)
    /\ spans'[Len(spans')].off = p

\* C3: a scan step whose next two bytes form a 2-byte operator emits that one
\* operator, of 2 bytes, and advances by 2; otherwise a step at a 1-byte
\* operator (that opens no comment) emits one token of 1 byte and advances by 1;
\* a call that exhausts the call stack does not start the step.
C3_GreedyOperators ==
    [][(ScanCall /\ StepRuns) =>
        LET p == AfterBlanks
        IN  IF p + 2 <= N /\ Slice(p, p + 2) \in {e.text : e \in Op2Table}
            THEN EmitsOperator(Op2Table, p, 2)
            ELSE IF p < N /\ <<At(p)>> \in {e.text : e \in Op1Table}
                          /\ ~StartsWith(p, <<"/", "/">>)
            THEN EmitsOperator(Op1Table, p, 1)
            ELSE TRUE]_vars

\* A step has emitted `->` or `--` as one token of two bytes.
C3_Witness ==
    /\ Len(spans) = 1
    /\ Len(types) = 1
    /\ \/ types[1] = "Arrow" /\ spans[1].slice = <<"-", ">">>
       \/ types[1] = "Decr" /\ spans[1].slice = <<"-", "-">>
    /\ input = 2

-----------------------------------------------------------------------------
(* C4 *)

C4_Types == <<"StringInterpBeg", "Num", "Plus", "Num", "StringInterpEnd">>

\* C4 as stated: the two segment tokens of `$"a{1+2}b"` have the slices `a`
\* and `b`, each token positioned where its slice starts.
C4_BareSegments ==
    (code = InInterp /\ status = "done") =>
        /\ types = C4_Types
        /\ Slices = << <<"a">>, <<"1">>, <<"+">>, <<"2">>, <<"b">> >>
        /\ \A i \in DOMAIN spans : spans[i].line = 1 /\ spans[i].col = spans[i].off

\* C4, amended: the segment tokens span their delimiters, `$"a{` at 1:0 and
\* `}b"` at 1:7, around Num `1`, Plus and Num `2`, and nothing else is emitted.
C4_DelimitedSegments ==
    (code = InInterp /\ status = "done") =>
        Tokens = << [type |-> "StringInterpBeg", slice |-> <<"$", "\"", "a", "{">>,
                     line |-> 1, col |-> 0],
                    [type |-> "Num", slice |-> <<"1">>, line |-> 1, col |-> 4],
                    [type |-> "Plus", slice |-> <<"+">>, line |-> 1, col |-> 5],
                    [type |-> "Num", slice |-> <<"2">>, line |-> 1, col |-> 6],
                    [type |-> "StringInterpEnd", slice |-> <<"}", "b", "\"">>,
                     line |-> 1, col |-> 7] >>

C4_Witness == code = InInterp /\ status = "done" /\ types = C4_Types

-----------------------------------------------------------------------------
(* C5 *)

Openers == {"(", "[", "{"}

Closers == {")", "]", "}"}

OpenerOf(c) == CASE c = ")" -> "(" [] c = "]" -> "[" [] c = "}" -> "{"

\* No byte of the source opens a literal or a comment: every delimiter byte is
\* a delimiter of the program text.
PlainCode == \A i \in DOMAIN code : code[i] \notin {"\"", "'", "$", "/"}

\* The opening delimiters of the bytes from offset i on that no closing
\* delimiter matches, given those still open before i.
RECURSIVE OpenAtEnd(_, _)
OpenAtEnd(i, open) ==
    IF i >= N THEN open
    ELSE IF At(i) \in Openers THEN OpenAtEnd(i + 1, Append(open, At(i)))
    ELSE IF At(i) \in Closers /\ open # <<>> /\ open[Len(open)] = OpenerOf(At(i))
    THEN OpenAtEnd(i + 1, SubSeq(open, 1, Len(open) - 1))
    ELSE OpenAtEnd(i + 1, open)

UnmatchedOpen == OpenAtEnd(0, <<>>) # <<>>

\* C5: lex never returns a Token Stream for an input with an opening
\* delimiter that is not matched before the end of the input.
C5_UnmatchedOpenAborts ==
    (PlainCode /\ UnmatchedOpen) => status # "done"

-----------------------------------------------------------------------------
(* C6 *)

NewlinesBefore(off) == Cardinality({i \in 0..(off - 1) : At(i) = "\n"})

\* The 1-based line of the byte at offset off.
TrueLine(off) == 1 + NewlinesBefore(off)

\* The offset where the line of the byte at offset off starts.
TrueLineStart(off) ==
    LET before == {i \in 0..(off - 1) : At(i) = "\n"}
    IN  IF before = {} THEN 0
        ELSE 1 + CHOOSE i \in before : \A j \in before : j <= i

\* C6: every token records the line of its first byte, 1 plus the newlines
\* before it, and the offset of that byte in its line as a column, never
\* negative or wrapped.
C6_TruePositions ==
    \A i \in DOMAIN spans :
        /\ spans[i].line = TrueLine(spans[i].off)
        /\ spans[i].col = spans[i].off - TrueLineStart(spans[i].off)
        /\ spans[i].col >= 0

-----------------------------------------------------------------------------
(* C7 *)

\* The source is an opening quote and a body that holds no other quote.
UnclosedStringCode ==
    /\ code # <<>>
    /\ code[1] = "\""
    /\ \A i \in 2..Len(code) : code[i] # "\""

\* C7: a plain string with no closing quote aborts with the unterminated-string
\* error at the line and column of its opening quote (the column counted from 0
\* as in the spans or from 1 as in the messages), newlines in the body or not.
C7_UnfinishedAtQuote ==
    (UnclosedStringCode /\ status # "running") =>
        /\ status = "panic"
        /\ panic.msg = "Unfinished string"
        /\ panic.line = 1
        /\ panic.col \in {0, 1}

-----------------------------------------------------------------------------
(* C8 *)

Delimiters == Openers \cup Closers

DelimiterType(c) ==
    CASE c = "(" -> "LParens" [] c = ")" -> "RParens"
      [] c = "[" -> "LBracket" [] c = "]" -> "RBracket"
      [] c = "{" -> "LBrace" [] c = "}" -> "RBrace"

\* The delimiter bytes of the source from offset i on, in source order.
RECURSIVE DelimitersFrom(_)
DelimitersFrom(i) ==
    IF i >= N THEN <<>>
    ELSE IF At(i) \in Delimiters
    THEN <<[type |-> DelimiterType(At(i)), off |-> i, slice |-> <<At(i)>>]>>
            \o DelimitersFrom(i + 1)
    ELSE DelimitersFrom(i + 1)

IsDelimiterToken(t) == t.type \in {DelimiterType(c) : c \in Delimiters}

\* The punctuation tokens emitted for delimiters, in token order.
DelimiterTokens ==
    SelectSeq([i \in 1..Len(spans) |->
                  [type |-> types[i], off |-> spans[i].off, slice |-> spans[i].slice]],
              IsDelimiterToken)

\* C8: `(1 + [2 * 3])` completes with exactly its nine tokens, and every
\* delimiter byte of program text is emitted as its own punctuation token, in
\* source order.
C8_NestedGroupings ==
    /\ (code = InNested /\ status # "running") =>
          /\ status = "done"
          /\ types = <<"LParens", "Num", "Plus", "LBracket", "Num", "Mul", "Num",
                       "RBracket", "RParens">>
          /\ Slices = << <<"(">>, <<"1">>, <<"+">>, <<"[">>, <<"2">>, <<"*">>,
                         <<"3">>, <<"]">>, <<")">> >>
    /\ (PlainCode /\ status = "done") => DelimiterTokens = DelimitersFrom(0)

\* A balanced nesting of two kinds of delimiters has been lexed to its end.
C8_Witness ==
    /\ status = "done"
    /\ PlainCode
    /\ ~UnmatchedOpen
    /\ Len(DelimiterTokens) >= 4
    /\ \E i, j \in DOMAIN types : types[i] = "LParens" /\ types[j] = "LBracket"

-----------------------------------------------------------------------------
(* C9 *)

\* Token i is a plain string literal whose text holds exactly one newline.
TwoLineString(i) ==
    /\ types[i] = "String"
    /\ spans[i].slice[1] # "$"
    /\ Cardinality({k \in DOMAIN spans[i].slice : spans[i].slice[k] = "\n"}) = 1

\* The offset of that newline.
NewlineOf(i) ==
    spans[i].off + (CHOOSE k \in DOMAIN spans[i].slice : spans[i].slice[k] = "\n") - 1

EndOf(i) == spans[i].off + Len(spans[i].slice)

\* The line breaks recorded for the bytes of token i.
BreaksWithin(i) ==
    LET Within(b) == spans[i].off <= b /\ b < EndOf(i)
    IN  SelectSeq(line_breaks, Within)

\* The line counter when the literal of token i started: 1 plus the line
\* breaks recorded before it.
LineAtStart(i) ==
    1 + Cardinality({k \in DOMAIN line_breaks : line_breaks[k] < spans[i].off})

\* Token i + 1 starts on the physical line on which token i ends.
NextOnSameLine(i) ==
    /\ i + 1 \in DOMAIN spans
    /\ \A b \in EndOf(i)..(spans[i + 1].off - 1) : At(b) # "\n"

\* C9: a plain string holding exactly one newline adds exactly one line break,
\* the offset of that newline, and the token after it on the same physical
\* line reports one line more than the line on which the literal started.
C9_TwoLineString ==
    \A i \in DOMAIN spans :
        TwoLineString(i) =>
            /\ BreaksWithin(i) = <<NewlineOf(i)>>
            /\ NextOnSameLine(i) => spans[i + 1].line = LineAtStart(i) + 1

\* A two-line string has been emitted and a token follows it on its last line.
C9_Witness ==
    \E i \in DOMAIN spans : TwoLineString(i) /\ NextOnSameLine(i)

-----------------------------------------------------------------------------
(* C10 *)

\* C10: line_breaks is strictly increasing and each entry is the offset of a
\* newline byte of the source.
C10_LineBreaksSorted ==
    /\ \A k \in DOMAIN line_breaks :
          line_breaks[k] \in 0..(N - 1) /\ At(line_breaks[k]) = "\n"
    /\ \A k \in 1..(Len(line_breaks) - 1) : line_breaks[k] < line_breaks[k + 1]

\* A run has recorded a line break at each of the four sites.
C10_Witness ==
    /\ code = InFourSites
    /\ status = "done"
    /\ line_breaks = <<1, 4, 8, 10>>
    /\ types = <<"String", "Char", "String", "Semi">>

-----------------------------------------------------------------------------
(* C11 *)

HasPrefix(slice, pat) ==
    Len(slice) >= Len(pat) /\ SubSeq(slice, 1, Len(pat)) = pat

\* The kinds the lexer may decide for a token text, read off its form.
KindsOf(slice) ==
    LET last == slice[Len(slice)]
        ops  == {e \in Op2Table \cup Op1Table : e.text = slice}
        kws  == {e \in KwTable : HasPrefix(slice, e.text)}
    IN  IF ops # {} THEN {e.type : e \in ops}
        ELSE IF HasPrefix(slice, <<"$", "\"">>)
        THEN IF last = "{" THEN {"StringInterpBeg"} ELSE {"String"}
        ELSE IF slice[1] = "}"
        THEN IF last = "{" THEN {"StringInterpMid"} ELSE {"StringInterpEnd"}
        ELSE IF \/ slice[1] = "\""
                \/ HasPrefix(slice, <<"b", "\"">>)
                \/ HasPrefix(slice, <<"c", "\"">>)
        THEN {"String"}
        ELSE IF slice[1] = "'" \/ HasPrefix(slice, <<"b", "'">>) THEN {"Char"}
        ELSE IF slice[1] \in Digit THEN {"Num"}
        ELSE IF slice[1] \in IdentStart
        THEN IF kws # {} THEN {e.type : e \in kws} ELSE {"Ident"}
        ELSE {}

\* C11: whenever a scan step has returned or suspended, and when lex has
\* returned, spans and kinds have the same length and the kind at each index
\* is a kind the text of the span at that index can be given.
C11_KindsAlignWithSpans ==
    status # "panic" =>
        /\ Len(types) = Len(spans)
        /\ \A i \in 1..Len(spans) :
               /\ spans[i].slice # <<>>
               /\ types[i] \in KindsOf(spans[i].slice)

\* A completed run with a keyword, a literal and an interpolated string.
C11_Witness ==
    /\ status = "done"
    /\ Len(types) = Len(spans)
    /\ Len(types) >= 3
    /\ \E i \in 1..Len(types) : types[i] = "StringInterpEnd"
    /\ \E i \in 1..Len(types) : types[i] = "Num"

-----------------------------------------------------------------------------
(* C12 *)

\* Byte j of the source lies in a span.
Covered(j) ==
    \E i \in 1..Len(spans) :
        spans[i].off <= j /\ j < spans[i].off + Len(spans[i].slice)

\* Byte j follows a // on its line or is one of its two slashes.
InLineComment(j) ==
    \E p \in 0..j :
        /\ StartsWith(p, <<"/", "/">>)
        /\ \A k \in p..j : At(k) # "\n"

\* C12: when lex completes the spans, in token order, are non-empty
\* sub-ranges of the source that do not overlap and start at increasing
\* offsets, each slice is the source bytes at its offset, and every byte in
\* no span is whitespace or part of a line comment.
C12_SpansTileSource ==
    status = "done" =>
        /\ \A i \in 1..Len(spans) :
               /\ spans[i].slice # <<>>
               /\ spans[i].off >= 0
               /\ spans[i].off + Len(spans[i].slice) <= N
               /\ Slice(spans[i].off, spans[i].off + Len(spans[i].slice))
                      = spans[i].slice
        /\ \A i \in 1..(Len(spans) - 1) :
               spans[i].off + Len(spans[i].slice) <= spans[i + 1].off
        /\ \A j \in 0..(N - 1) :
               ~Covered(j) => At(j) \in AsciiWhitespace \/ InLineComment(j)

\* A completed run with tokens, a skipped comment and skipped whitespace.
C12_Witness ==
    /\ status = "done"
    /\ Len(spans) >= 3
    /\ \E j \in 0..(N - 1) : ~Covered(j) /\ At(j) = "a" /\ InLineComment(j)
    /\ \E j \in 0..(N - 1) : ~Covered(j) /\ At(j) = " "

-----------------------------------------------------------------------------
(* C13 *)

\* C13: every newline skipped between tokens is recorded, also when blanks
\* precede it in the same run of whitespace, so that when lex completes
\* line_breaks holds the offset of every newline of the source.
C13_EveryNewlineRecorded ==
    status = "done" =>
        \A j \in 0..(N - 1) :
            At(j) = "\n" => \E k \in 1..Len(line_breaks) : line_breaks[k] = j

-----------------------------------------------------------------------------
(* C14 *)

\* C14: the closing brace of an interpolation is consumed by the string and
\* never emitted as RBrace, also when a blank stands before it: the source
\* InInterpBlank is lexed to the end as a segment, a number and a segment.
C14_BlankBeforeClosingBrace ==
    code = InInterpBlank =>
        /\ status # "panic"
        /\ \A i \in 1..Len(types) : types[i] # "RBrace"
        /\ status = "done" =>
               types = <<"StringInterpBeg", "Num", "StringInterpEnd">>

-----------------------------------------------------------------------------
(* C15 *)

\* The source opens with an interpolated string and holds no other one.
OneLiteral ==
    /\ StartsWith(0, <<"$", "\"">>)
    /\ \A j \in 1..(N - 1) : At(j) # "$"

IsSegment(t) ==
    \/ t.type \in {"StringInterpBeg", "StringInterpMid", "StringInterpEnd"}
    \/ t.type = "String" /\ t.slice[1] = "$"

\* The segment tokens emitted so far, in token order.
Segments ==
    SelectSeq([i \in 1..Len(spans) |->
                  [type |-> types[i], slice |-> spans[i].slice]], IsSegment)

\* The number of bytes c of the source from offset 2 up to offset k.
CountUpTo(c, k) == Cardinality({j \in 2..k : At(j) = c})

\* The source is one interpolated string and nothing else, without escapes,
\* whose braces pair up one after the other: every `{` is a bare brace of the
\* literal and the next `}` closes its interpolation.
SimpleLiteral ==
    /\ OneLiteral
    /\ N >= 3
    /\ At(N - 1) = "\""
    /\ \A j \in 2..(N - 2) : At(j) \notin {"\"", "\\"}
    /\ \A k \in 2..(N - 1) : CountUpTo("{", k) - CountUpTo("}", k) \in {0, 1}
    /\ CountUpTo("{", N - 1) = CountUpTo("}", N - 1)

\* The kinds of the segment tokens the literal is to emit, from its bare
\* braces.
ExpectedSegments ==
    LET n == CountUpTo("{", N - 1)
    IN  IF n = 0 THEN <<"String">>
        ELSE [i \in 1..(n + 1) |-> IF i = 1 THEN "StringInterpBeg"
                                   ELSE IF i = n + 1 THEN "StringInterpEnd"
                                   ELSE "StringInterpMid"]

\* C15: the segment tokens of an interpolated string that lex has closed are
\* a single String when the literal has no bare brace, and otherwise one
\* StringInterpBeg, one StringInterpMid for each further bare brace and one
\* StringInterpEnd, in that order.
C15_OneSegmentPerBrace ==
    (SimpleLiteral /\ status = "done") =>
        [i \in 1..Len(Segments) |-> Segments[i].type] = ExpectedSegments

-----------------------------------------------------------------------------
(* C16 *)

\* C16: a scan step that meets a line comment after the whitespace returns
\* with the cursor at the next newline, or at the end of the input when no
\* newline follows; it emits no token and records no line break at or after
\* the comment.
C16_CommentStep ==
    [][(ScanCall /\ StepRuns /\ StartsWith(AfterBlanks, <<"/", "/">>)) =>
          /\ status' = "running"
          /\ input' = RunNot(AfterBlanks + 2, {"\n"})
          /\ types' = types
          /\ spans' = spans
          /\ \A k \in (Len(line_breaks) + 1)..Len(line_breaks') :
                 line_breaks'[k] < AfterBlanks]_vars

-----------------------------------------------------------------------------
(* C17 *)

\* The plain string and char literals: prefix, quote and kind.
LiteralForms ==
    {[prefix |-> <<"\"">>, quote |-> "\"", type |-> "String"],
     [prefix |-> <<"b", "\"">>, quote |-> "\"", type |-> "String"],
     [prefix |-> <<"c", "\"">>, quote |-> "\"", type |-> "String"],
     [prefix |-> <<"'">>, quote |-> "'", type |-> "Char"],
     [prefix |-> <<"b", "'">>, quote |-> "'", type |-> "Char"]}

\* The whole source is one closed literal of form f: the prefix, a body whose
\* quotes are all escaped, and a closing quote that is not.
IsClosedLiteral(f) ==
    /\ N > Len(f.prefix)
    /\ StartsWith(0, f.prefix)
    /\ At(N - 1) = f.quote
    /\ At(N - 2) # "\\"
    /\ \A j \in Len(f.prefix)..(N - 2) : At(j) = f.quote => At(j - 1) = "\\"

\* C17: a closed plain string or char literal yields exactly one token, of
\* kind String or Char, whose slice runs from the first prefix byte through
\* the closing quote; escaped quotes and newlines in the body do not close it.
C17_ClosedLiteralIsOneToken ==
    \A f \in LiteralForms :
        (IsClosedLiteral(f) /\ event # "start") =>
            /\ status \notin {"panic", "abort"}
            /\ types = <<f.type>>
            /\ Slices = <<code>>

-----------------------------------------------------------------------------
(* C18 *)

\* C18: a scan step, and the rest of a suspended one, either aborts or
\* leaves the cursor strictly further on and within the source, so the
\* loops that call the steps end after at most N of them.
C18_StepsAdvance ==
    [][(status = "running" /\ status' = "running") =>
          input < input' /\ input' <= N]_vars

\* A recursive step has returned inside an interpolation, further on.
C18_Witness ==
    /\ status = "running"
    /\ event = "return"
    /\ stack # <<>>
    /\ input > Top.start_str_addr + 1
    /\ input < N

-----------------------------------------------------------------------------
(* C19 *)

\* The byte at p starts no comment, operator, string, char, identifier or
\* number.
StartsNothing(p) ==
    /\ p < N
    /\ \A e \in Op2Table \cup Op1Table : ~StartsWith(p, e.text)
    /\ ~StartsWith(p, <<"$", "\"">>)
    /\ At(p) \notin {"\"", "'"} \cup IdentStart \cup Digit

\* C19: when the byte after the whitespace starts no token, the step aborts
\* with the error Cannot parse token at the line of that byte and at its
\* column in that line (counted from 0 as in the spans or from 1 as in the
\* messages), and appends no token; a call that exhausts the call stack does
\* not start the step.
C19_CannotParse ==
    [][(ScanCall /\ StepRuns /\ StartsNothing(AfterBlanks)) =>
          /\ status' = "panic"
          /\ panic'.msg = "Cannot parse token"
          /\ panic'.positioned
          /\ panic'.line = TrueLine(AfterBlanks)
          /\ panic'.col - (AfterBlanks - TrueLineStart(AfterBlanks)) \in {0, 1}
          /\ types' = types
          /\ spans' = spans]_vars

-----------------------------------------------------------------------------
(* C20 *)

\* The whole source is one decimal literal: a run of decimal digits.
WholeNumber == N >= 1 /\ \A j \in 0..(N - 1) : At(j) \in Digit

\* C20: a numeric literal yields exactly one Num token that spans the
\* literal: a source that is a run of decimal digits is lexed to one Num
\* token whose slice is the source.
C20_NumberIsOneToken ==
    (WholeNumber /\ event # "start") =>
        /\ status \notin {"panic", "abort"}
        /\ types = <<"Num">>
        /\ Slices = <<code>>

-----------------------------------------------------------------------------
(* C21 *)

\* seq is an initial part of seq2.
IsPrefix(seq, seq2) ==
    Len(seq) <= Len(seq2) /\ SubSeq(seq2, 1, Len(seq)) = seq

\* C21: across every scan step, recursive ones included, the line counter,
\* the line start and the lengths of line_breaks, spans and kinds never
\* decrease, and the entries the three sequences already hold stay as they
\* are, in place.
C21_StateOnlyGrows ==
    [][/\ line' >= line
       /\ line_start' >= line_start
       /\ IsPrefix(line_breaks, line_breaks')
       /\ IsPrefix(spans, spans')
       /\ IsPrefix(types, types')]_vars

\* A recursive step inside an interpolation has returned with a token of
\* the second line.
C21_Witness ==
    /\ event = "return"
    /\ stack # <<>>
    /\ line = 2
    /\ line_start > Top.start_str_addr
    /\ Len(spans) = 2
    /\ Len(types) = 2
    /\ Len(line_breaks) = 1

-----------------------------------------------------------------------------
(* C22 *)

\* C22: whenever a scan step has returned, the line counter is 1 plus the
\* number of recorded line breaks and the line start is the offset after the
\* last recorded line break, the start of the buffer when there is none.
C22_LineFollowsBreaks ==
    event \in {"return", "suspend", "done"} =>
        /\ line = 1 + Len(line_breaks)
        /\ line_start = IF line_breaks = <<>> THEN 0
                        ELSE line_breaks[Len(line_breaks)] + 1

\* A step has returned a literal that spans two recorded line breaks.
C22_Witness ==
    /\ event = "return"
    /\ line = 3
    /\ Len(line_breaks) = 2
    /\ line_start = line_breaks[2] + 1
    /\ Len(spans) >= 1
    /\ line_breaks[1] > spans[1].off

=============================================================================
